---- MODULE Spec2Model ----
(***************************************************************************)
(* FIR management backend: the FIR collection (backend/models/FIR.model.js) *)
(* and the request handlers that write it (firController.js and the two    *)
(* disposalController variants).  Dates are whole days counted from         *)
(* 1970-01-01, the unit in which every rule of the program is stated.       *)
(***************************************************************************)
EXTENDS Integers, Sequences, FiniteSets, TLC

VARIABLES
    firs,     \* the FIR collection: _id -> document
    nextId,   \* the next _id the store hands out (ids are never reused)
    now,      \* the server clock, in days
    res,      \* the last HTTP response: handler, target _id, status code
    probe,    \* the request under study in the single-request specifications
    view,     \* the payload of the last read response (listing or report)
    partOfDay, \* the time of day of the server clock, in half days past midnight
    registry, \* the active documents of the PoliceStation collection, by name
    calls     \* the requests whose handler runs step by step: what each has read
              \* and answered so far

vars == <<firs, nextId, now, res, probe, view, partOfDay, registry, calls>>

----------------------------------------------------------------------------
(* Bounds of the model *)

MaxFIRs == 1
MaxRemarks == 1
MaxTicks == 1
PopSize == 2
MaxLog == 2

----------------------------------------------------------------------------
(* Calendar arithmetic of the JavaScript Date object, at day granularity *)

Years == 2023 .. 2026

DaysInYear(y) ==
    IF y % 4 # 0 THEN 365
    ELSE IF y % 100 # 0 THEN 366
    ELSE IF y % 400 # 0 THEN 365
    ELSE 366

DayFromYear(y) ==
    365 * (y - 1970) + ((y - 1969) \div 4) - ((y - 1901) \div 100) + ((y - 1601) \div 400)

YearFromTime(d) == CHOOSE y \in Years : DayFromYear(y) <= d /\ d < DayFromYear(y + 1)

InLeapYear(d) == IF DaysInYear(YearFromTime(d)) = 366 THEN 1 ELSE 0

DayWithinYear(d) == d - DayFromYear(YearFromTime(d))

\* first day-within-year of month m (0 = January) in a year with leap flag l
MonthStart(m, l) ==
    CASE m = 0 -> 0
      [] m = 1 -> 31
      [] m = 2 -> 59 + l
      [] m = 3 -> 90 + l
      [] m = 4 -> 120 + l
      [] m = 5 -> 151 + l
      [] m = 6 -> 181 + l
      [] m = 7 -> 212 + l
      [] m = 8 -> 243 + l
      [] m = 9 -> 273 + l
      [] m = 10 -> 304 + l
      [] m = 11 -> 334 + l
      [] m = 12 -> 365 + l

MonthFromTime(d) ==
    LET l == InLeapYear(d)
        w == DayWithinYear(d)
    IN  CHOOSE m \in 0 .. 11 : MonthStart(m, l) <= w /\ w < MonthStart(m + 1, l)

\* Date.prototype.getDate: the day of the month, 1-based
getDate(d) == DayWithinYear(d) - MonthStart(MonthFromTime(d), InLeapYear(d)) + 1

\* MakeDay(year, month, date) of the Date object: month and date may overflow
MakeDay(y, m, dt) ==
    LET ym == y + (m \div 12)
        mn == m % 12
        l  == IF DaysInYear(ym) = 366 THEN 1 ELSE 0
    IN  DayFromYear(ym) + MonthStart(mn, l) + dt - 1

\* Date.prototype.setDate: same year and month, day of month replaced by dt
setDate(d, dt) == MakeDay(YearFromTime(d), MonthFromTime(d), dt)

----------------------------------------------------------------------------
(* Values *)

NoDate == 0 - 1          \* null / absent date
BadDate == 0 - 2         \* a date string that does not parse (Invalid Date)

Day0 == MakeDay(2025, 0, 1)

DateInputs == {Day0, Day0 + 1}

SeriousnessClasses == {60, 90, 180}

DisposalStatuses == {"Registered", "Chargesheeted", "Finalized"}

Stations == {"PANAJI PS", "MAPUSA PS"}

\* the PoliceStation collection once the stations are seeded
SeededStations == <<"PANAJI PS", "MAPUSA PS">>

\* the k-th FIR number clients register
FirNumberSeq == <<"F1", "F2", "F3">>

\* a client submits a number already in use or the next fresh one
FirNumbers == { FirNumberSeq[k] : k \in 1 .. nextId }

Section1 == [act |-> "IPC", section |-> "420"]

Admin == [id |-> "admin", role |-> "admin", police_station |-> "",
          subdivision_stations |-> {}]

PsUser == [id |-> "ps1", role |-> "ps", police_station |-> "PANAJI PS",
           subdivision_stations |-> {}]

SdpoUser == [id |-> "sdpo1", role |-> "sdpo", police_station |-> "",
             subdivision_stations |-> {"MAPUSA PS"}]

Users == {Admin, PsUser, SdpoUser}

NoProbe == [filingDate |-> NoDate, seriousnessDays |-> 0]

NoRes == [op |-> "none", id |-> 0, code |-> 0]

\* no read response yet
NoView == [op |-> "none"]

Resp(op, id, code) == [op |-> op, id |-> id, code |-> code]

----------------------------------------------------------------------------
(* FIR schema *)

\* enum validators of the schema
ValidSeriousness(n) == n \in SeriousnessClasses

ValidStatus(s) == s \in DisposalStatuses

\* filingDate validator: date <= new Date()
ValidFilingDate(d) == d <= now

\* a hook that sets the day of the month to seriousnessDays instead of adding it
PreSaveDueDateNoGetDate(isNew, doc) ==
    IF isNew /\ doc.filingDate # NoDate /\ doc.disposalDueDate = NoDate
    THEN [doc EXCEPT !.disposalDueDate = setDate(doc.filingDate, doc.seriousnessDays)]
    ELSE doc

\* pre('save') hook 1: the due date is derived for a new document only
PreSaveDueDate(isNew, doc) ==
    IF isNew /\ doc.filingDate # NoDate /\ doc.disposalDueDate = NoDate
    THEN [doc EXCEPT !.disposalDueDate =
              setDate(doc.filingDate, getDate(doc.filingDate) + doc.seriousnessDays)]
    ELSE doc

\* pre('save') hook 2: a disposal date before the filing date fails the save
PreSaveDisposalOk(doc) ==
    ~(doc.disposalDate # NoDate /\ doc.disposalDate < doc.filingDate)

\* PoliceStation.findOne by exact name, then case-insensitively; "" = not found
findPoliceStation(name) ==
    CASE name \in Stations -> name
      [] name = "Panaji PS" -> "PANAJI PS"
      [] OTHER -> ""

FirNumberTaken(n) == \E i \in DOMAIN firs : firs[i].firNumber = n

----------------------------------------------------------------------------
(* Requests *)

\* a request body; "" / 0 / NoDate / hasSections = FALSE is an omitted field
EmptyBody ==
    [firNumber |-> "", hasSections |-> FALSE, sections |-> <<>>, policeStation |-> "",
     filingDate |-> NoDate, seriousnessDays |-> 0, status |-> "", disposalDate |-> NoDate]

ValidCreateBodies ==
    { [firNumber |-> f, hasSections |-> TRUE, sections |-> <<Section1>>,
       policeStation |-> p, filingDate |-> d, seriousnessDays |-> n,
       status |-> s, disposalDate |-> dd] :
         f \in FirNumbers, p \in Stations \cup {"Panaji PS"}, d \in DateInputs,
         n \in SeriousnessClasses, s \in DisposalStatuses \cup {""},
         dd \in DateInputs \cup {NoDate} }

BaseCreate ==
    [EmptyBody EXCEPT !.firNumber = "F1", !.hasSections = TRUE, !.sections = <<Section1>>,
                      !.policeStation = "PANAJI PS", !.filingDate = Day0,
                      !.seriousnessDays = 90]

InvalidCreateBodies ==
    { [BaseCreate EXCEPT !.firNumber = ""],
      [BaseCreate EXCEPT !.hasSections = FALSE],
      [BaseCreate EXCEPT !.sections = <<>>],
      [BaseCreate EXCEPT !.sections = <<[act |-> "", section |-> "420"]>>],
      [BaseCreate EXCEPT !.policeStation = "GHOST PS"],
      [BaseCreate EXCEPT !.filingDate = BadDate],
      [BaseCreate EXCEPT !.seriousnessDays = 30],
      [BaseCreate EXCEPT !.status = "Closed"],
      [BaseCreate EXCEPT !.disposalDate = BadDate] }

CreateBodies == ValidCreateBodies \cup InvalidCreateBodies

----------------------------------------------------------------------------
(* Handlers *)

\* canCreateFIR middleware: non-admins create only inside their own scope
canCreateFIR(u, body) ==
    CASE u.role = "admin" -> TRUE
      [] u.role = "ps" -> body.policeStation # "" /\ body.policeStation = u.police_station
      [] u.role = "sdpo" -> body.policeStation # ""
                            /\ body.policeStation \in u.subdivision_stations
      [] OTHER -> TRUE

\* a FIR.create that files every new document as Registered, whatever the request says
NewDocAlwaysRegistered(u, body) ==
    [firNumber |-> body.firNumber,
     sections |-> body.sections,
     policeStation |-> findPoliceStation(body.policeStation),
     filingDate |-> body.filingDate,
     seriousnessDays |-> body.seriousnessDays,
     disposalStatus |-> "Registered",
     disposalDate |-> body.disposalDate,
     disposalDueDate |-> NoDate,
     remarks |-> <<>>,
     isActive |-> TRUE]

\* the document FIR.create builds from the request, schema defaults applied
\* (policeStationId always names the same station as policeStation, and
\* createdBy / assignedTo are never read by a rule of the program: left out)
NewDoc(u, body) ==
    [firNumber |-> body.firNumber,
     sections |-> body.sections,
     policeStation |-> findPoliceStation(body.policeStation),
     filingDate |-> body.filingDate,
     seriousnessDays |-> body.seriousnessDays,
     disposalStatus |-> IF body.status # "" THEN body.status ELSE "Registered",
     disposalDate |-> body.disposalDate,
     disposalDueDate |-> NoDate,
     remarks |-> <<>>,
     isActive |-> TRUE]

\* schema validation run by save(): casts, enums, filing date not in the future
CreateValid(doc) ==
    /\ doc.filingDate # BadDate
    /\ doc.disposalDate # BadDate
    /\ ValidFilingDate(doc.filingDate)
    /\ ValidSeriousness(doc.seriousnessDays)
    /\ ValidStatus(doc.disposalStatus)
    /\ PreSaveDisposalOk(doc)

\* POST /api/firs
createFIR(u, body) ==
    /\ nextId <= MaxFIRs
    /\ UNCHANGED <<now, probe, view, partOfDay, registry, calls>>
    /\ IF ~canCreateFIR(u, body)
       THEN res' = Resp("createFIR", 0, 403) /\ UNCHANGED <<firs, nextId>>
       ELSE IF \/ body.firNumber = "" \/ ~body.hasSections \/ body.policeStation = ""
               \/ body.filingDate = NoDate \/ body.seriousnessDays = 0
       THEN res' = Resp("createFIR", 0, 400) /\ UNCHANGED <<firs, nextId>>
       ELSE IF FirNumberTaken(body.firNumber)
       THEN res' = Resp("createFIR", 0, 400) /\ UNCHANGED <<firs, nextId>>
       ELSE IF Len(body.sections) = 0
       THEN res' = Resp("createFIR", 0, 400) /\ UNCHANGED <<firs, nextId>>
       ELSE IF \E k \in 1 .. Len(body.sections) :
                   body.sections[k].act = "" \/ body.sections[k].section = ""
       THEN res' = Resp("createFIR", 0, 400) /\ UNCHANGED <<firs, nextId>>
       ELSE IF findPoliceStation(body.policeStation) = ""
       THEN res' = Resp("createFIR", 0, 400) /\ UNCHANGED <<firs, nextId>>
       ELSE IF ~CreateValid(NewDoc(u, body))
       THEN res' = Resp("createFIR", 0, 500) /\ UNCHANGED <<firs, nextId>>
       ELSE /\ firs' = firs @@ (nextId :> PreSaveDueDate(TRUE, NewDoc(u, body)))
            /\ nextId' = nextId + 1
            /\ res' = Resp("createFIR", nextId, 201)

CreateFIR == \E u \in Users, body \in CreateBodies : createFIR(u, body)

\* the request bodies of PUT /api/firs/:id: one field, or status and date together
UpdateBodies ==
    { [EmptyBody EXCEPT !.policeStation = p] :
             p \in Stations \cup {"Panaji PS", "GHOST PS"} }
    \cup { [EmptyBody EXCEPT !.filingDate = d] : d \in DateInputs \cup {BadDate} }
    \cup { [EmptyBody EXCEPT !.seriousnessDays = n] : n \in {60, 30} }
    \cup { [EmptyBody EXCEPT !.status = s, !.disposalDate = dd] :
             s \in DisposalStatuses \cup {""}, dd \in DateInputs \cup {NoDate} }
    \cup { [EmptyBody EXCEPT !.status = "Closed"], [EmptyBody EXCEPT !.disposalDate = BadDate] }

\* the request bodies of PATCH .../disposal: { status, dateOfDisposal }
DisposalBodies ==
    { [status |-> s, dateOfDisposal |-> dd] : s \in DisposalStatuses, dd \in DateInputs }
    \cup { [status |-> "", dateOfDisposal |-> Day0],
           [status |-> "Closed", dateOfDisposal |-> Day0],
           [status |-> "Chargesheeted", dateOfDisposal |-> NoDate],
           [status |-> "Chargesheeted", dateOfDisposal |-> BadDate] }

RemarkTexts == {"", "r1"}

FirIds == 1 .. MaxFIRs

\* role scoping shared by updateFIR, addRemark and updateFIRDisposal
InScope(u, station) ==
    /\ ~(u.role = "ps" /\ station # u.police_station)
    /\ ~(u.role = "sdpo" /\ station \notin u.subdivision_stations)

\* an update that derives the due date again from the new seriousnessDays
ApplyUpdateRederivingDue(doc, body) ==
    [doc EXCEPT
       !.firNumber = IF body.firNumber # "" THEN body.firNumber ELSE @,
       !.sections = IF body.hasSections THEN body.sections ELSE @,
       !.policeStation = IF body.policeStation # ""
                         THEN findPoliceStation(body.policeStation) ELSE @,
       !.filingDate = IF body.filingDate # NoDate THEN body.filingDate ELSE @,
       !.seriousnessDays = IF body.seriousnessDays # 0 THEN body.seriousnessDays ELSE @,
       !.disposalStatus = IF body.status # "" THEN body.status ELSE @,
       !.disposalDate = IF body.disposalDate # NoDate THEN body.disposalDate ELSE @,
       !.disposalDueDate = IF body.seriousnessDays # 0
                           THEN doc.filingDate + body.seriousnessDays ELSE @]

\* an update document from which the firNumber of the request is left out
ApplyUpdateKeepingFirNumber(doc, body) ==
    [doc EXCEPT
       !.sections = IF body.hasSections THEN body.sections ELSE @,
       !.policeStation = IF body.policeStation # ""
                         THEN findPoliceStation(body.policeStation) ELSE @,
       !.filingDate = IF body.filingDate # NoDate THEN body.filingDate ELSE @,
       !.seriousnessDays = IF body.seriousnessDays # 0 THEN body.seriousnessDays ELSE @,
       !.disposalStatus = IF body.status # "" THEN body.status ELSE @,
       !.disposalDate = IF body.disposalDate # NoDate THEN body.disposalDate ELSE @]

\* the fields of the update document that findByIdAndUpdate writes
ApplyUpdate(doc, body) ==
    [doc EXCEPT
       !.firNumber = IF body.firNumber # "" THEN body.firNumber ELSE @,
       !.sections = IF body.hasSections THEN body.sections ELSE @,
       !.policeStation = IF body.policeStation # ""
                         THEN findPoliceStation(body.policeStation) ELSE @,
       !.filingDate = IF body.filingDate # NoDate THEN body.filingDate ELSE @,
       !.seriousnessDays = IF body.seriousnessDays # 0 THEN body.seriousnessDays ELSE @,
       !.disposalStatus = IF body.status # "" THEN body.status ELSE @,
       !.disposalDate = IF body.disposalDate # NoDate THEN body.disposalDate ELSE @]

\* update validators (runValidators: true) see only the paths being set
UpdateValid(body) ==
    /\ body.filingDate # BadDate
    /\ body.disposalDate # BadDate
    /\ body.filingDate # NoDate => ValidFilingDate(body.filingDate)
    /\ body.seriousnessDays # 0 => ValidSeriousness(body.seriousnessDays)
    /\ body.status # "" => ValidStatus(body.status)

\* PUT /api/firs/:id
updateFIR(u, id, body) ==
    /\ UNCHANGED <<nextId, now, probe, view, partOfDay, registry, calls>>
    /\ IF id \notin DOMAIN firs
       THEN res' = Resp("updateFIR", id, 404) /\ UNCHANGED firs
       ELSE IF ~InScope(u, firs[id].policeStation)
       THEN res' = Resp("updateFIR", id, 403) /\ UNCHANGED firs
       ELSE IF body.firNumber # "" /\ body.firNumber # firs[id].firNumber
               /\ FirNumberTaken(body.firNumber)
       THEN res' = Resp("updateFIR", id, 400) /\ UNCHANGED firs
       ELSE IF body.policeStation # "" /\ findPoliceStation(body.policeStation) = ""
       THEN res' = Resp("updateFIR", id, 400) /\ UNCHANGED firs
       ELSE IF ~UpdateValid(body)
       THEN res' = Resp("updateFIR", id, 500) /\ UNCHANGED firs
       ELSE /\ firs' = [firs EXCEPT ![id] = ApplyUpdate(@, body)]
            /\ res' = Resp("updateFIR", id, 200)

UpdateFIR == \E u \in Users, id \in FirIds, body \in UpdateBodies : updateFIR(u, id, body)

\* DELETE /api/firs/:id (canDeleteFIR, then the handler)
deleteFIR(u, id) ==
    /\ UNCHANGED <<nextId, now, probe, view, partOfDay, registry, calls>>
    /\ IF u.role # "admin"
       THEN res' = Resp("deleteFIR", id, 403) /\ UNCHANGED firs
       ELSE IF id \notin DOMAIN firs
       THEN res' = Resp("deleteFIR", id, 404) /\ UNCHANGED firs
       ELSE /\ firs' = [i \in DOMAIN firs \ {id} |-> firs[i]]
            /\ res' = Resp("deleteFIR", id, 200)

DeleteFIR == \E u \in Users, id \in FirIds : deleteFIR(u, id)

\* a push that puts the new entry in front of the log
pushInFront(arr, entry) == <<entry>> \o arr

\* Array.prototype.push of fir.remarks.push
push(arr, entry) == Append(arr, entry)

\* POST /api/firs/:id/remarks on a log of fewer than max entries; fir.save()
\* runs both pre('save') hooks
addRemarkUpTo(u, id, remark, max) ==
    /\ UNCHANGED <<nextId, now, probe, view, partOfDay, registry, calls>>
    /\ IF remark = ""
       THEN res' = Resp("addRemark", id, 400) /\ UNCHANGED firs
       ELSE IF id \notin DOMAIN firs
       THEN res' = Resp("addRemark", id, 404) /\ UNCHANGED firs
       ELSE IF ~InScope(u, firs[id].policeStation)
       THEN res' = Resp("addRemark", id, 403) /\ UNCHANGED firs
       ELSE IF ~PreSaveDisposalOk(firs[id])
       THEN res' = Resp("addRemark", id, 500) /\ UNCHANGED firs
       ELSE /\ Len(firs[id].remarks) < max
            /\ firs' = [firs EXCEPT ![id] =
                          PreSaveDueDate(FALSE,
                              [@ EXCEPT !.remarks =
                                   push(@, [remark |-> remark, addedBy |-> u.id])])]
            /\ res' = Resp("addRemark", id, 200)

\* POST /api/firs/:id/remarks
addRemark(u, id, remark) == addRemarkUpTo(u, id, remark, MaxRemarks)

AddRemark == \E u \in Users, id \in FirIds, r \in RemarkTexts : addRemark(u, id, r)

\* what the disposal write stores (the extra `status` key is not in the schema)
SetDisposal(doc, status, date) ==
    [doc EXCEPT !.disposalStatus = status, !.disposalDate = date]

\* a whitelist that leaves only the chargesheet step open to a Registered FIR
DisposalTargetsChargesheetOnly == {"Chargesheeted"}

\* the statuses PATCH /api/firs/:id/disposal accepts as the new status
DisposalTargets == {"Chargesheeted", "Finalized"}

\* PATCH /api/firs/:id/disposal, the variant that disposes Registered FIRs only
updateFIRDisposal(u, id, body) ==
    /\ UNCHANGED <<nextId, now, probe, view, partOfDay, registry, calls>>
    /\ IF body.status = "" \/ body.dateOfDisposal = NoDate
       THEN res' = Resp("updateFIRDisposal", id, 400) /\ UNCHANGED firs
       ELSE IF body.status \notin DisposalTargets
       THEN res' = Resp("updateFIRDisposal", id, 400) /\ UNCHANGED firs
       ELSE IF body.dateOfDisposal = BadDate
       THEN res' = Resp("updateFIRDisposal", id, 400) /\ UNCHANGED firs
       ELSE IF id \notin DOMAIN firs
       THEN res' = Resp("updateFIRDisposal", id, 404) /\ UNCHANGED firs
       ELSE IF ~InScope(u, firs[id].policeStation)
       THEN res' = Resp("updateFIRDisposal", id, 403) /\ UNCHANGED firs
       ELSE IF firs[id].disposalStatus # "Registered"
       THEN res' = Resp("updateFIRDisposal", id, 400) /\ UNCHANGED firs
       ELSE /\ firs' = [firs EXCEPT ![id] = SetDisposal(@, body.status, body.dateOfDisposal)]
            /\ res' = Resp("updateFIRDisposal", id, 200)

UpdateFIRDisposal ==
    \E u \in Users, id \in FirIds, body \in DisposalBodies : updateFIRDisposal(u, id, body)

\* canUpdateDisposal middleware of PATCH /api/disposal/:id
canUpdateDisposal(u) == u.role \in {"admin", "sdpo"}

\* the disposal date check of the bidirectional variant
DisposalDateOk(date, doc) == ~(date < doc.filingDate)

\* PATCH /api/disposal/:id, the variant that allows every status transition
updateFIRDisposalAny(u, id, body) ==
    /\ UNCHANGED <<nextId, now, probe, view, partOfDay, registry, calls>>
    /\ IF ~canUpdateDisposal(u)
       THEN res' = Resp("updateFIRDisposalAny", id, 403) /\ UNCHANGED firs
       ELSE IF body.status = "" \/ body.dateOfDisposal = NoDate
       THEN res' = Resp("updateFIRDisposalAny", id, 400) /\ UNCHANGED firs
       ELSE IF body.status \notin {"Registered", "Chargesheeted", "Finalized"}
       THEN res' = Resp("updateFIRDisposalAny", id, 400) /\ UNCHANGED firs
       ELSE IF id \notin DOMAIN firs
       THEN res' = Resp("updateFIRDisposalAny", id, 404) /\ UNCHANGED firs
       ELSE IF ~firs[id].isActive
       THEN res' = Resp("updateFIRDisposalAny", id, 400) /\ UNCHANGED firs
       ELSE IF body.dateOfDisposal # BadDate /\ ~DisposalDateOk(body.dateOfDisposal, firs[id])
       THEN res' = Resp("updateFIRDisposalAny", id, 400) /\ UNCHANGED firs
       ELSE IF body.dateOfDisposal = BadDate
       THEN res' = Resp("updateFIRDisposalAny", id, 500) /\ UNCHANGED firs
       ELSE /\ firs' = [firs EXCEPT ![id] = SetDisposal(@, body.status, body.dateOfDisposal)]
            /\ res' = Resp("updateFIRDisposalAny", id, 200)

UpdateFIRDisposalAny ==
    \E u \in Users, id \in FirIds, body \in DisposalBodies : updateFIRDisposalAny(u, id, body)

----------------------------------------------------------------------------
(* Urgency: the virtuals of the schema *)

\* the clock has a time of day; stored dates are midnights
HalfDaysPerDay == 2

\* getTime() of a stored date and of new Date(), in half days
getTime(d) == HalfDaysPerDay * d

Today == HalfDaysPerDay * now + partOfDay

\* Math.ceil(a / b) for b > 0
Ceil(a, b) == 0 - ((0 - a) \div b)

\* virtual daysRemaining (the caller guards a null disposalDueDate)
daysRemaining(doc) == Ceil(getTime(doc.disposalDueDate) - Today, HalfDaysPerDay)

\* a classifier that still calls the last day before the due date, day 0, Red
disposalUrgencyStatusZeroIsRed(doc) ==
    IF doc.disposalDueDate = NoDate THEN "Unknown"
    ELSE LET days == daysRemaining(doc)
         IN  IF days > 15 THEN "Safe"
             ELSE IF days >= 10 THEN "Yellow"
             ELSE IF days >= 5 THEN "Orange"
             ELSE IF days >= 0 THEN "Red"
             ELSE "Exceeded"

\* virtual disposalUrgencyStatus
disposalUrgencyStatus(doc) ==
    IF doc.disposalDueDate = NoDate THEN "Unknown"
    ELSE LET days == daysRemaining(doc)
         IN  IF days > 15 THEN "Safe"
             ELSE IF days >= 10 THEN "Yellow"
             ELSE IF days >= 5 THEN "Orange"
             ELSE IF days > 0 THEN "Red"
             ELSE "Exceeded"

----------------------------------------------------------------------------
(* Read handlers *)

\* the payload of a 200 response, kept with the request it answers
Payload(op, u, q, fields) == [op |-> op, user |-> u, query |-> q] @@ fields

\* a document as toJSON serialises it (virtuals: true), or as a lean / aggregation
\* result, which carries no virtuals ("" = field absent)
Serialised(i, withVirtuals) ==
    [id |-> i, doc |-> firs[i],
     disposalUrgencyStatus |-> IF withVirtuals THEN disposalUrgencyStatus(firs[i]) ELSE ""]

\* GET /api/firs/:id
getFIR(u, id) ==
    /\ UNCHANGED <<firs, nextId, now, probe, partOfDay, registry, calls>>
    /\ IF id \notin DOMAIN firs
       THEN res' = Resp("getFIR", id, 404) /\ view' = NoView
       ELSE IF ~InScope(u, firs[id].policeStation)
       THEN res' = Resp("getFIR", id, 403) /\ view' = NoView
       ELSE /\ res' = Resp("getFIR", id, 200)
            /\ view' = Payload("getFIR", u, id, [data |-> <<Serialised(id, TRUE)>>])

\* POLICE_STATION_HIERARCHY: the two subdivisions the stations of the model are in
getStationsBySubdivision(v) ==
    CASE v = "panaji_sd" -> {"PANAJI PS", "OLD GOA PS", "AGACAIM PS"}
      [] v = "mapusa_sd" -> {"MAPUSA PS", "ANJUNA PS", "COLVALE PS"}
      [] OTHER -> {}

getStationsByDistrict(v) ==
    IF v = "north_district"
    THEN getStationsBySubdivision("panaji_sd") \cup getStationsBySubdivision("mapusa_sd")
    ELSE {}

\* policeStation.includes('_district') / includes('_sd') on the names clients send
IncludesDistrict(p) == p \in {"north_district", "south_district"}

IncludesSd(p) == p \in {"panaji_sd", "mapusa_sd"}

\* the urgencyFilters table applied to a daysRemaining value; a name outside
\* the table adds no filter
urgencyFilters(urgency, d) ==
    CASE urgency = "safe" -> d > 15
      [] urgency = "yellow" -> d >= 10 /\ d <= 15
      [] urgency = "orange" -> d >= 5 /\ d < 10
      [] urgency = "red" -> d > 0 /\ d < 5
      [] urgency = "exceeded" -> d <= 0
      [] urgency = "yellow+" -> d <= 15
      [] urgency = "orange+" -> d <= 9
      [] urgency = "red+" -> d <= 4
      [] OTHER -> TRUE

UrgencyNames ==
    {"safe", "yellow", "orange", "red", "exceeded", "yellow+", "orange+", "red+"}

\* the station part of the filter: the requested station, subdivision or
\* district when one is named, the role filter only otherwise
StationFilter(u, q, doc) ==
    IF q.policeStation # ""
    THEN IF IncludesDistrict(q.policeStation)
         THEN doc.policeStation \in getStationsByDistrict(q.policeStation)
         ELSE IF IncludesSd(q.policeStation)
         THEN doc.policeStation \in getStationsBySubdivision(q.policeStation)
         ELSE doc.policeStation = q.policeStation
    ELSE CASE u.role = "ps" -> doc.policeStation = u.police_station
           [] u.role = "sdpo" -> doc.policeStation \in u.subdivision_stations
           [] OTHER -> TRUE

\* the documents the filter of getAllFIRs matches
ListingMatch(u, q) ==
    { i \in DOMAIN firs :
        /\ firs[i].isActive
        /\ StationFilter(u, q, firs[i])
        /\ q.status # "" => firs[i].disposalStatus = q.status
        /\ q.urgency \in UrgencyNames
              => /\ firs[i].disposalDueDate # NoDate
                 /\ urgencyFilters(q.urgency, daysRemaining(firs[i])) }

\* .sort({ filingDate: -1 }), equal dates in _id order
RECURSIVE SortByFilingDateDesc(_)
SortByFilingDateDesc(S) ==
    IF S = {} THEN <<>>
    ELSE LET first == CHOOSE i \in S : \A j \in S :
                          \/ firs[i].filingDate > firs[j].filingDate
                          \/ firs[i].filingDate = firs[j].filingDate /\ i <= j
         IN  <<first>> \o SortByFilingDateDesc(S \ {first})

\* GET /api/firs with the default page, limit and sort; the aggregation path
\* (urgency or station filter) returns plain objects, the find path documents
getAllFIRs(u, q) ==
    /\ UNCHANGED <<firs, nextId, now, probe, partOfDay, registry, calls>>
    /\ IF q.status # "" /\ q.status \notin DisposalStatuses
       THEN res' = Resp("getAllFIRs", 0, 400) /\ view' = NoView
       ELSE LET ids == SortByFilingDateDesc(ListingMatch(u, q))
                aggregation == q.urgency \in UrgencyNames \/ q.policeStation # ""
            IN  /\ res' = Resp("getAllFIRs", 0, 200)
                /\ view' = Payload("getAllFIRs", u, q,
                       [data |-> [k \in 1 .. Len(ids) |-> Serialised(ids[k], ~aggregation)],
                        totalItems |-> Len(ids)])

\* getStatus of the dashboard: the deadline is derived again from the filing
\* date and the seriousness class, then classified
getStatus(doc) ==
    LET deadline == setDate(doc.filingDate, getDate(doc.filingDate) + doc.seriousnessDays)
        remaining == Ceil(getTime(deadline) - Today, HalfDaysPerDay)
    IN  IF remaining > 15 THEN "safe"
        ELSE IF remaining >= 10 THEN "warning"
        ELSE IF remaining >= 5 THEN "critical"
        ELSE IF remaining > 0 THEN "urgent"
        ELSE "overdue"

\* PoliceStation.find({ isActive: true }), in the order the collection returns them
policeStations == registry

\* Math.round(n / d) for n >= 0 and d > 0
Round(n, d) == (2 * n + d) \div (2 * d)

RECURSIVE Sum(_, _)
Sum(f, S) ==
    IF S = {} THEN 0
    ELSE LET x == CHOOSE x \in S : TRUE IN f[x] + Sum(f, S \ {x})

\* the if / else-if chain of getPerformanceReport on a daysRemaining value
urgencyCategory(d) ==
    IF d < 0 THEN "Red+ (Overdue)"
    ELSE IF d <= 5 THEN "Red"
    ELSE IF d <= 10 THEN "Orange"
    ELSE IF d <= 15 THEN "Yellow"
    ELSE "Green"

UrgencyCategoryNames == {"Green", "Yellow", "Orange", "Red", "Red+ (Overdue)"}

\* the histogram both forEach loops of getPerformanceReport build
urgencyCounts(S) ==
    [c \in UrgencyCategoryNames |->
        Cardinality({ i \in S : urgencyCategory(daysRemaining(firs[i])) = c })]

\* FIR.find({ policeStationId, disposalStatus: 'Registered' })
stationFIRs(station) ==
    { i \in DOMAIN firs :
        firs[i].policeStation = station /\ firs[i].disposalStatus = "Registered" }

\* FIR.find({ policeStationId, disposalStatus: 'Chargesheeted',
\*            disposalDate: { $lte: new Date() } }); null matches no $lte
chargesheetedWithinDueDate(station) ==
    { i \in DOMAIN firs :
        /\ firs[i].policeStation = station
        /\ firs[i].disposalStatus = "Chargesheeted"
        /\ firs[i].disposalDate # NoDate
        /\ getTime(firs[i].disposalDate) <= Today }

\* an entry computed without the zero guard: 0 / 0 is NaN, which Math.round
\* keeps (written -1 here, a value no percentage takes)
stationPerformanceUnguarded(station) ==
    LET totalUndisposed == Cardinality(stationFIRs(station))
        totalChargesheeted == Cardinality(chargesheetedWithinDueDate(station))
    IN  [stationName |-> station,
         totalUndisposedFIRs |-> totalUndisposed,
         totalChargesheetedFIRs |-> totalChargesheeted,
         performancePercentage |->
             IF totalUndisposed > 0 THEN Round(totalChargesheeted * 100, totalUndisposed)
             ELSE 0 - 1,
         urgencyCounts |-> urgencyCounts(stationFIRs(station))]

\* one entry of stationPerformance
stationPerformance(station) ==
    LET totalUndisposed == Cardinality(stationFIRs(station))
        totalChargesheeted == Cardinality(chargesheetedWithinDueDate(station))
    IN  [stationName |-> station,
         totalUndisposedFIRs |-> totalUndisposed,
         totalChargesheetedFIRs |-> totalChargesheeted,
         performancePercentage |->
             IF totalUndisposed > 0 THEN Round(totalChargesheeted * 100, totalUndisposed)
             ELSE 0,
         urgencyCounts |-> urgencyCounts(stationFIRs(station))]

\* Array.prototype.sort by performancePercentage, lowest first, stable
RECURSIVE SortByPerformance(_)
SortByPerformance(rows) ==
    IF rows = <<>> THEN <<>>
    ELSE LET k == CHOOSE k \in 1 .. Len(rows) : \A j \in 1 .. Len(rows) :
                      \/ rows[k].performancePercentage < rows[j].performancePercentage
                      \/ /\ rows[k].performancePercentage = rows[j].performancePercentage
                         /\ k <= j
         IN  <<rows[k]>> \o SortByPerformance(SubSeq(rows, 1, k - 1)
                                               \o SubSeq(rows, k + 1, Len(rows)))

\* an average in which every station weighs as many cases as it has pending
averagePerformanceCaseWeighted(rows) ==
    LET cases == Sum([k \in DOMAIN rows |-> rows[k].totalUndisposedFIRs], DOMAIN rows)
        weighted == Sum([k \in DOMAIN rows |->
                            rows[k].performancePercentage * rows[k].totalUndisposedFIRs],
                        DOMAIN rows)
    IN  IF cases > 0 THEN Round(weighted, cases) ELSE 0

\* summary.averagePerformance: the reduce over the entries, divided by their
\* number, through Math.round
averagePerformance(rows) ==
    IF Len(rows) > 0
    THEN Round(Sum([k \in DOMAIN rows |-> rows[k].performancePercentage], DOMAIN rows),
               Len(rows))
    ELSE 0

\* GET /api/firs/performance-report (authorize('admin', 'sdpo'), then the handler);
\* counted names the documents its queries fetched
getPerformanceReport(u) ==
    /\ UNCHANGED <<firs, nextId, now, probe, partOfDay, registry, calls>>
    /\ IF u.role \notin {"admin", "sdpo"}
       THEN res' = Resp("getPerformanceReport", 0, 403) /\ view' = NoView
       ELSE LET undisposedFIRs == { i \in DOMAIN firs : firs[i].disposalStatus = "Registered" }
                rows == SortByPerformance(
                            [k \in DOMAIN policeStations |-> stationPerformance(policeStations[k])])
            IN  IF \E i \in undisposedFIRs : firs[i].disposalDueDate = NoDate
                THEN res' = Resp("getPerformanceReport", 0, 500) /\ view' = NoView
                ELSE /\ res' = Resp("getPerformanceReport", 0, 200)
                     /\ view' = Payload("getPerformanceReport", u, "",
                            [urgencyCategories |-> urgencyCounts(undisposedFIRs),
                             stationPerformance |-> rows,
                             summary |->
                                 [totalUndisposedFIRs |-> Cardinality(undisposedFIRs),
                                  totalPoliceStations |-> Len(policeStations),
                                  averagePerformance |-> averagePerformance(rows)],
                             counted |-> undisposedFIRs \cup UNION
                                 { stationFIRs(policeStations[k])
                                     \cup chargesheetedWithinDueDate(policeStations[k]) :
                                   k \in DOMAIN policeStations }])

\* the filingDate range of the report requests; both ends must be given
InDateRange(q, doc) ==
    (q.startDate # NoDate /\ q.endDate # NoDate)
        => (q.startDate <= doc.filingDate /\ doc.filingDate <= q.endDate)

\* the $switch of the report-data pipeline: the difference in days is not rounded
PipelineCategory(doc) ==
    LET diff == getTime(doc.disposalDueDate) - Today
    IN  IF doc.disposalDueDate = NoDate THEN "null"
        ELSE IF diff < 0 THEN "Red+"
        ELSE IF diff <= 5 * HalfDaysPerDay THEN "Red"
        ELSE IF diff <= 10 * HalfDaysPerDay THEN "Orange"
        ELSE IF diff <= 15 * HalfDaysPerDay THEN "Yellow"
        ELSE "Green"

\* the isChargesheetedOnTime field of the pipeline
isChargesheetedOnTime(doc) ==
    /\ doc.disposalStatus = "Chargesheeted"
    /\ doc.disposalDate # NoDate
    /\ doc.disposalDueDate # NoDate
    /\ doc.disposalDate <= doc.disposalDueDate

\* $round of n / d to an integer, halves to the even neighbour (n >= 0, d > 0)
RoundHalfEven(n, d) ==
    LET q == n \div d
        r == n % d
    IN  IF 2 * r < d THEN q
        ELSE IF 2 * r > d THEN q + 1
        ELSE IF q % 2 = 0 THEN q ELSE q + 1

\* the stations in the order { $sort: { policeStationName: 1 } } gives them
StationsByName == <<"MAPUSA PS", "PANAJI PS">>

\* $match of the report-data pipeline: date range, statuses, stations, nothing
\* else.  An aggregation stage is not cast to the schema: the station ids of the
\* query string stay strings, and no ObjectId policeStationId is $in a list of
\* strings
PipelineMatch(q) ==
    { i \in DOMAIN firs :
        /\ InDateRange(q, firs[i])
        /\ q.statusFilter # {} => firs[i].disposalStatus \in q.statusFilter
        /\ q.policeStationIds = {} }

\* one group of the pipeline; percentages are in hundredths of a percent, the
\* two decimals { $round: [x, 2] } keeps
PipelineGroup(S, station) ==
    LET G == { i \in S : firs[i].policeStation = station }
        count(status) == Cardinality({ i \in G : firs[i].disposalStatus = status })
        tier(c) == Cardinality({ i \in G : /\ firs[i].disposalStatus = "Registered"
                                           /\ PipelineCategory(firs[i]) = c })
        onTime == Cardinality({ i \in G : isChargesheetedOnTime(firs[i]) })
        total == Cardinality(G)
    IN  [policeStationName |-> station,
         totalRegisteredCases |-> total,
         totalChargesheeted |-> count("Chargesheeted"),
         totalFinalized |-> count("Finalized"),
         totalRegistered |-> count("Registered"),
         urgencyCounts |-> [yellow |-> tier("Yellow"), orange |-> tier("Orange"),
                            red |-> tier("Red"), redPlus |-> tier("Red+"),
                            green |-> tier("Green")],
         performancePercentage |->
             IF total > 0 THEN RoundHalfEven(onTime * 10000, total) ELSE 0,
         chargesheetedOnTime |-> onTime,
         pendingCases |-> count("Registered"),
         disposedCases |-> count("Chargesheeted") + count("Finalized"),
         disposalRate |->
             IF total > 0
             THEN RoundHalfEven((count("Chargesheeted") + count("Finalized")) * 10000, total)
             ELSE 0]

\* GET /api/reports/pdf-data: the aggregation pipeline, then the summary;
\* the average is an unrounded quotient, kept as numerator and denominator
GET(q) ==
    /\ UNCHANGED <<firs, nextId, now, probe, partOfDay, registry, calls>>
    /\ LET S == PipelineMatch(q)
           names == SelectSeq(StationsByName,
                              LAMBDA st : \E i \in S : firs[i].policeStation = st)
           results == [k \in DOMAIN names |-> PipelineGroup(S, names[k])]
           total(f) == Sum([k \in DOMAIN results |-> f[k]], DOMAIN results)
       IN  /\ res' = Resp("GET", 0, 200)
           /\ view' = Payload("GET", "", q,
                  [policeStations |-> results,
                   summary |->
                     [totalPoliceStations |-> Len(results),
                      totalRegisteredCases |->
                          total([k \in DOMAIN results |-> results[k].totalRegisteredCases]),
                      totalChargesheeted |->
                          total([k \in DOMAIN results |-> results[k].totalChargesheeted]),
                      totalFinalized |->
                          total([k \in DOMAIN results |-> results[k].totalFinalized]),
                      totalPending |->
                          total([k \in DOMAIN results |-> results[k].pendingCases]),
                      averagePerformancePercentage |->
                          IF Len(results) > 0
                          THEN [num |-> total([k \in DOMAIN results |->
                                                  results[k].performancePercentage]),
                                den |-> Len(results)]
                          ELSE [num |-> 0, den |-> 1],
                      urgencySummary |->
                          [c \in {"yellow", "orange", "red", "redPlus", "green"} |->
                              total([k \in DOMAIN results |-> results[k].urgencyCounts[c]])]],
                   counted |-> S])

\* canGenerateReports middleware of /api/reports
canGenerateReports(u) == u.role = "admin"

\* baseFilter of generatePerformanceReport
baseFilter(q) ==
    { i \in DOMAIN firs :
        /\ firs[i].isActive
        /\ InDateRange(q, firs[i])
        /\ (q.policeStationId # "" /\ q.policeStationId # "all")
              => firs[i].policeStation = q.policeStationId }

\* new Date() with setMonth(getMonth() - 6), in half days
sixMonthsAgo ==
    getTime(MakeDay(YearFromTime(now), MonthFromTime(now) - 6, getDate(now))) + partOfDay

\* every (year, month) the calendar of the model holds, in order
AllMonths ==
    [k \in 1 .. 12 * Cardinality(Years) |->
        [year |-> 2023 + ((k - 1) \div 12), month |-> ((k - 1) % 12) + 1]]

\* the status counts every report of reportController.js gives for a set of cases
StatusCounts(S) ==
    [totalFIRs |-> Cardinality(S),
     registeredFIRs |-> Cardinality({ i \in S : firs[i].disposalStatus = "Registered" }),
     chargesheetedFIRs |-> Cardinality({ i \in S : firs[i].disposalStatus = "Chargesheeted" }),
     finalizedFIRs |-> Cardinality({ i \in S : firs[i].disposalStatus = "Finalized" })]

\* $sort by completionRate, highest first, equal rates in registry order
RECURSIVE SortByCompletionDesc(_)
SortByCompletionDesc(rows) ==
    IF rows = <<>> THEN <<>>
    ELSE LET k == CHOOSE k \in 1 .. Len(rows) : \A j \in 1 .. Len(rows) :
                      \/ rows[k].completionRate > rows[j].completionRate
                      \/ rows[k].completionRate = rows[j].completionRate /\ k <= j
         IN  <<rows[k]>> \o SortByCompletionDesc(SubSeq(rows, 1, k - 1)
                                                  \o SubSeq(rows, k + 1, Len(rows)))

\* the first n entries of a sequence (.limit(n))
Limit(seq, n) == SubSeq(seq, 1, IF Len(seq) < n THEN Len(seq) ELSE n)

\* GET /api/reports/performance (canGenerateReports, then the handler)
generatePerformanceReport(u, q) ==
    /\ UNCHANGED <<firs, nextId, now, probe, partOfDay, registry, calls>>
    /\ IF ~canGenerateReports(u)
       THEN res' = Resp("generatePerformanceReport", 0, 403) /\ view' = NoView
       ELSE LET S == baseFilter(q)
                c == StatusCounts(S)
                overdueFIRs == Cardinality({ i \in S :
                    /\ firs[i].disposalStatus \in {"Registered", "Chargesheeted"}
                    /\ firs[i].disposalDueDate # NoDate
                    /\ getTime(firs[i].disposalDueDate) < Today })
                row(station) ==
                    LET sc == StatusCounts({ i \in S : firs[i].policeStation = station })
                    IN  [name |-> station] @@ sc @@
                        [completionRate |->
                            IF sc.totalFIRs > 0
                            THEN RoundHalfEven((sc.chargesheetedFIRs + sc.finalizedFIRs) * 100,
                                               sc.totalFIRs)
                            ELSE 0]
                recent == Limit(SortByFilingDateDesc(S), 10)
                trend(ym) == { i \in S : /\ getTime(firs[i].filingDate) >= sixMonthsAgo
                                         /\ YearFromTime(firs[i].filingDate) = ym.year
                                         /\ MonthFromTime(firs[i].filingDate) + 1 = ym.month }
                months == SelectSeq(AllMonths, LAMBDA ym : trend(ym) # {})
            IN  /\ res' = Resp("generatePerformanceReport", 0, 200)
                /\ view' = Payload("generatePerformanceReport", u, q,
                       [overview |-> c @@
                           [overdueFIRs |-> overdueFIRs,
                            completionRate |->
                                IF c.totalFIRs > 0
                                THEN Round((c.chargesheetedFIRs + c.finalizedFIRs) * 100,
                                           c.totalFIRs)
                                ELSE 0,
                            overdueRate |->
                                IF c.totalFIRs > 0 THEN Round(overdueFIRs * 100, c.totalFIRs)
                                ELSE 0],
                        policeStationPerformance |->
                            SortByCompletionDesc(
                                [k \in DOMAIN policeStations |-> row(policeStations[k])]),
                        monthlyTrends |->
                            [k \in DOMAIN months |-> [_id |-> months[k]]
                                                      @@ StatusCounts(trend(months[k]))],
                        recentFIRs |-> [k \in DOMAIN recent |-> Serialised(recent[k], FALSE)],
                        availablePoliceStations |-> policeStations,
                        counted |-> S])

\* GET /api/performance-report (canGenerateReports, then the handler): the
\* four counts over the active cases and their completion rate
getPerformanceReportSimple(u) ==
    /\ UNCHANGED <<firs, nextId, now, probe, partOfDay, registry, calls>>
    /\ IF ~canGenerateReports(u)
       THEN res' = Resp("getPerformanceReportSimple", 0, 403) /\ view' = NoView
       ELSE LET S == { i \in DOMAIN firs : firs[i].isActive }
                c == StatusCounts(S)
            IN  /\ res' = Resp("getPerformanceReportSimple", 0, 200)
                /\ view' = Payload("getPerformanceReportSimple", u, "",
                       c @@ [completionRate |->
                                 IF c.totalFIRs > 0
                                 THEN Round((c.chargesheetedFIRs + c.finalizedFIRs) * 100,
                                            c.totalFIRs)
                                 ELSE 0,
                             counted |-> S])

\* the filters of generateFIRReport
ReportFilters(q) ==
    { i \in DOMAIN firs :
        /\ firs[i].isActive
        /\ InDateRange(q, firs[i])
        /\ (q.policeStationId # "" /\ q.policeStationId # "all")
              => firs[i].policeStation = q.policeStationId
        /\ (q.disposalStatus # "" /\ q.disposalStatus # "all")
              => firs[i].disposalStatus = q.disposalStatus }

\* GET /api/reports/firs with the default page and limit; lean documents
generateFIRReport(u, q) ==
    /\ UNCHANGED <<firs, nextId, now, probe, partOfDay, registry, calls>>
    /\ IF ~canGenerateReports(u)
       THEN res' = Resp("generateFIRReport", 0, 403) /\ view' = NoView
       ELSE LET ids == Limit(SortByFilingDateDesc(ReportFilters(q)), 50)
            IN  /\ res' = Resp("generateFIRReport", 0, 200)
                /\ view' = Payload("generateFIRReport", u, q,
                       [data |-> [k \in DOMAIN ids |-> Serialised(ids[k], FALSE)],
                        totalCount |-> Cardinality(ReportFilters(q))])

\* the `queries` table of the static getByUrgency on a due date, in half days;
\* a name outside the table adds no condition
queries(urgency, due) ==
    LET days(n) == Today + n * HalfDaysPerDay
    IN  CASE urgency = "Green" -> due > days(15)
          [] urgency = "Yellow" -> due > days(10) /\ due <= days(15)
          [] urgency = "Orange" -> due > days(5) /\ due <= days(10)
          [] urgency = "Red" -> due > Today /\ due <= days(5)
          [] urgency = "Red+" -> due < Today
          [] OTHER -> TRUE

GetByUrgencyNames == {"Green", "Yellow", "Orange", "Red", "Red+"}

\* FIR.getByUrgency(urgency): the documents its find matches (a null due date
\* matches no comparison)
getByUrgency(urgency) ==
    { i \in DOMAIN firs :
        /\ firs[i].isActive
        /\ firs[i].disposalStatus = "Registered"
        /\ urgency \in GetByUrgencyNames
              => /\ firs[i].disposalDueDate # NoDate
                 /\ queries(urgency, getTime(firs[i].disposalDueDate)) }

\* a call of the static, its result kept with the tier asked for
CallGetByUrgency(urgency) ==
    /\ UNCHANGED <<firs, nextId, now, probe, partOfDay, registry, calls>>
    /\ res' = Resp("getByUrgency", 0, 200)
    /\ view' = Payload("getByUrgency", "", urgency, [ids |-> getByUrgency(urgency)])

\* the clock advances
Tick ==
    /\ now < Day0 + MaxTicks
    /\ now' = now + 1
    /\ UNCHANGED <<firs, nextId, res, probe, view, partOfDay, registry, calls>>

----------------------------------------------------------------------------

Init ==
    /\ firs = <<>>
    /\ nextId = 1
    /\ now = Day0
    /\ res = NoRes
    /\ probe = NoProbe
    /\ view = NoView
    /\ partOfDay = 0
    /\ registry = SeededStations
    /\ calls = <<>>

Next ==
    \/ CreateFIR
    \/ UpdateFIR
    \/ DeleteFIR
    \/ AddRemark
    \/ UpdateFIRDisposal
    \/ UpdateFIRDisposalAny
    \/ Tick

Spec == Init /\ [][Next]_vars

----------------------------------------------------------------------------
(* The deadline calculator on its own: one creation request per behaviour,  *)
(* its filing date drawn from fifteen months that hold a leap day and two   *)
(* year ends.                                                               *)

ProbeDays == MakeDay(2023, 11, 1) .. MakeDay(2025, 2, 1)

ProbeRequest ==
    [BaseCreate EXCEPT !.filingDate = probe.filingDate,
                       !.seriousnessDays = probe.seriousnessDays]

InitDeadline ==
    /\ firs = <<>>
    /\ nextId = 1
    /\ now = MakeDay(2025, 2, 1)
    /\ res = NoRes
    /\ probe \in [filingDate : ProbeDays, seriousnessDays : SeriousnessClasses]
    /\ view = NoView
    /\ partOfDay = 0
    /\ registry = SeededStations
    /\ calls = <<>>

CreateProbe == createFIR(Admin, ProbeRequest)

NextDeadline == CreateProbe

SpecDeadline == InitDeadline /\ [][NextDeadline]_vars

----------------------------------------------------------------------------
(* The editable record on its own: one case is filed, then its number and   *)
(* its charge sections are edited through PUT /api/firs/:id, remarks are    *)
(* added and the case is disposed of.                                       *)

Section2 == [act |-> "IPC", section |-> "34"]

SectionLists == {<<Section1>>, <<Section1, Section2>>}

RecordCreateBodies ==
    { [BaseCreate EXCEPT !.firNumber = f, !.sections = ss, !.policeStation = p,
                         !.seriousnessDays = n] :
        f \in FirNumbers, ss \in SectionLists \cup {<<>>}, p \in Stations,
        n \in SeriousnessClasses }

\* `sections: []` is a truthy value in the handler: the field is present
RecordUpdateBodies ==
    { [EmptyBody EXCEPT !.firNumber = FirNumberSeq[k]] : k \in DOMAIN FirNumberSeq }
    \cup { [EmptyBody EXCEPT !.hasSections = TRUE, !.sections = ss] :
              ss \in SectionLists \cup {<<>>} }

CreateRecord == \E u \in Users, body \in RecordCreateBodies : createFIR(u, body)

EditRecord ==
    \E u \in Users, id \in FirIds, body \in RecordUpdateBodies : updateFIR(u, id, body)

\* remarks are added until the log holds MaxLog of them
AppendRemark ==
    \E u \in Users, id \in FirIds, r \in RemarkTexts : addRemarkUpTo(u, id, r, MaxLog)

NextRecord ==
    \/ CreateRecord
    \/ EditRecord
    \/ AppendRemark
    \/ DeleteFIR
    \/ UpdateFIRDisposal
    \/ UpdateFIRDisposalAny

SpecRecord == Init /\ [][NextRecord]_vars

----------------------------------------------------------------------------
(* The read side on its own: a stored population and one read request per   *)
(* behaviour (a read changes nothing a later read could see).  A database   *)
(* without cases is read before or after its stations are seeded.           *)

\* 2025-03-28
ReadDay == MakeDay(2025, 2, 28)

\* a stored case: the document createFIR built when the case was filed at
\* station k.station, with the status and disposal date written since and the
\* isActive flag the store holds for it
StoredCase(i, k) ==
    [PreSaveDueDate(TRUE, NewDoc(Admin, [BaseCreate EXCEPT
                                           !.policeStation = k.station,
                                           !.filingDate = k.filed,
                                           !.seriousnessDays = k.class]))
        EXCEPT !.firNumber = "F" \o ToString(i),
               !.disposalStatus = k.status,
               !.disposalDate = k.disposed,
               !.isActive = k.active]

\* cases of both stations, active or not, in each status; a case is disposed
\* the day before the read, within its due date or (filed earlier) after it
ScopeKinds ==
    { [station |-> st, active |-> a, filed |-> ReadDay - 60, class |-> 90, status |-> sd,
       disposed |-> IF sd = "Registered" THEN NoDate ELSE ReadDay - 1] :
         st \in Stations, a \in BOOLEAN, sd \in DisposalStatuses }
    \cup { [station |-> st, active |-> a, filed |-> ReadDay - 100, class |-> 90,
            status |-> "Chargesheeted", disposed |-> ReadDay - 1] :
             st \in Stations, a \in BOOLEAN }

\* the days around every boundary of the urgency tiers
DueOffsets == (0 - 6) .. 18

\* one 90-day case due DueOffsets days after the read, pending or chargesheeted
\* on the day it was filed
UrgencyKinds ==
    { [station |-> "PANAJI PS", active |-> TRUE, filed |-> ReadDay + off - 90, class |-> 90,
       status |-> sd, disposed |-> IF sd = "Registered" THEN NoDate ELSE ReadDay + off - 90] :
         off \in DueOffsets, sd \in {"Registered", "Chargesheeted"} }

\* ten cases of one station: four chargesheeted within the due date, six pending
TenCases ==
    [i \in 1 .. 10 |->
        StoredCase(i, [station |-> "PANAJI PS", active |-> TRUE, filed |-> ReadDay - 60,
                       class |-> 90,
                       status |-> IF i <= 4 THEN "Chargesheeted" ELSE "Registered",
                       disposed |-> IF i <= 4 THEN ReadDay - 1 ELSE NoDate])]

\* eight cases of one station: one chargesheeted within the due date, seven
\* pending (one in eight is 12.5 percent)
EightCases ==
    [i \in 1 .. 8 |->
        StoredCase(i, [station |-> "PANAJI PS", active |-> TRUE, filed |-> ReadDay - 60,
                       class |-> 90,
                       status |-> IF i <= 1 THEN "Chargesheeted" ELSE "Registered",
                       disposed |-> IF i <= 1 THEN ReadDay - 1 ELSE NoDate])]

\* three cases of one station: two chargesheeted within the due date, one pending
ThreeCases ==
    [i \in 1 .. 3 |->
        StoredCase(i, [station |-> "PANAJI PS", active |-> TRUE, filed |-> ReadDay - 60,
                       class |-> 90,
                       status |-> IF i <= 2 THEN "Chargesheeted" ELSE "Registered",
                       disposed |-> IF i <= 2 THEN ReadDay - 1 ELSE NoDate])]

Populations ==
    { [i \in 1 .. PopSize |-> StoredCase(i, ks[i])] : ks \in [1 .. PopSize -> ScopeKinds] }
    \cup { [i \in 1 .. 1 |-> StoredCase(i, k)] : k \in UrgencyKinds }
    \cup { TenCases, EightCases, ThreeCases, <<>> }

EmptyQuery ==
    [policeStation |-> "", status |-> "", urgency |-> "", statusFilter |-> {},
     policeStationIds |-> {}, policeStationId |-> "", disposalStatus |-> "",
     startDate |-> NoDate, endDate |-> NoDate]

\* req.query of GET /api/firs
ListingQueries ==
    { [EmptyQuery EXCEPT !.policeStation = p] :
          p \in Stations \cup {"", "mapusa_sd", "north_district"} }
    \cup { [EmptyQuery EXCEPT !.status = sd] : sd \in {"Registered", "Closed"} }
    \cup { [EmptyQuery EXCEPT !.urgency = g] : g \in UrgencyNames \cup {"soon"} }
    \cup { [EmptyQuery EXCEPT !.policeStation = "MAPUSA PS", !.urgency = "safe"],
           [EmptyQuery EXCEPT !.status = "Registered", !.urgency = "safe"] }

\* searchParams of GET /api/reports/pdf-data
PipelineQueries ==
    { EmptyQuery,
      [EmptyQuery EXCEPT !.statusFilter = {"Registered"}],
      [EmptyQuery EXCEPT !.statusFilter = {"Chargesheeted", "Finalized"}],
      [EmptyQuery EXCEPT !.policeStationIds = {"PANAJI PS"}],
      [EmptyQuery EXCEPT !.startDate = ReadDay - 70, !.endDate = ReadDay] }

\* req.query of the two reports of reportController.js
ReportQueries ==
    { EmptyQuery,
      [EmptyQuery EXCEPT !.policeStationId = "all"],
      [EmptyQuery EXCEPT !.policeStationId = "PANAJI PS"],
      [EmptyQuery EXCEPT !.disposalStatus = "Registered"],
      [EmptyQuery EXCEPT !.startDate = ReadDay - 70, !.endDate = ReadDay] }

ReadIds == 1 .. PopSize + 1

InitRead ==
    /\ firs \in Populations
    /\ nextId = Len(firs) + 1
    /\ now = ReadDay
    /\ partOfDay \in {0, 1}
    /\ res = NoRes
    /\ probe = NoProbe
    /\ view = NoView
    /\ registry \in (IF firs = <<>> THEN {SeededStations, <<>>} ELSE {SeededStations})
    /\ calls = <<>>

GetFIR == res = NoRes /\ \E u \in Users, id \in ReadIds : getFIR(u, id)

GetAllFIRs == res = NoRes /\ \E u \in Users, q \in ListingQueries : getAllFIRs(u, q)

GetPerformanceReport == res = NoRes /\ \E u \in Users : getPerformanceReport(u)

ReportData == res = NoRes /\ \E q \in PipelineQueries : GET(q)

GeneratePerformanceReport ==
    res = NoRes /\ \E u \in Users, q \in ReportQueries : generatePerformanceReport(u, q)

GenerateFIRReport ==
    res = NoRes /\ \E u \in Users, q \in ReportQueries : generateFIRReport(u, q)

GetPerformanceReportSimple == res = NoRes /\ \E u \in Users : getPerformanceReportSimple(u)

GetByUrgency ==
    res = NoRes /\ \E urgency \in GetByUrgencyNames \cup {"Blue"} : CallGetByUrgency(urgency)

NextRead ==
    \/ GetFIR
    \/ GetAllFIRs
    \/ GetPerformanceReport
    \/ ReportData
    \/ GeneratePerformanceReport
    \/ GenerateFIRReport
    \/ GetPerformanceReportSimple
    \/ GetByUrgency

SpecRead == InitRead /\ [][NextRead]_vars

----------------------------------------------------------------------------
(* Two disposal requests in flight: the handler of PATCH /api/firs/:id/disposal *)
(* reads the case, awaits, and writes; another request runs in between.         *)

Idle == [pc |-> "idle"]

\* a request that has been answered
Done(u, id, body, code) == [pc |-> "done", user |-> u, id |-> id, body |-> body, code |-> code]

RaceUsers == {Admin, PsUser}

RaceIds == {1, 2}

RaceBodies ==
    { [status |-> "Chargesheeted", dateOfDisposal |-> ReadDay - 1],
      [status |-> "Finalized", dateOfDisposal |-> ReadDay],
      [status |-> "Registered", dateOfDisposal |-> ReadDay],
      [status |-> "Chargesheeted", dateOfDisposal |-> NoDate] }

\* updateFIRDisposal up to `await FIR.findById(firId)`: the validation of the
\* body, then the read, whose result ({} = null) the handler keeps
updateFIRDisposalFind(r, u, id, body) ==
    /\ calls[r].pc = "idle"
    /\ UNCHANGED <<firs, nextId, now, probe, view, partOfDay, registry>>
    /\ IF \/ body.status = "" \/ body.dateOfDisposal = NoDate
          \/ body.status \notin DisposalTargets
          \/ body.dateOfDisposal = BadDate
       THEN /\ calls' = [calls EXCEPT ![r] = Done(u, id, body, 400)]
            /\ res' = Resp("updateFIRDisposal", id, 400)
       ELSE /\ calls' = [calls EXCEPT ![r] =
                           [pc |-> "found", user |-> u, id |-> id, body |-> body,
                            fir |-> IF id \in DOMAIN firs THEN {firs[id]} ELSE {}]]
            /\ UNCHANGED res

\* updateFIRDisposal from the read on: the checks on the document that was
\* read, then `await FIR.findByIdAndUpdate(firId, ...)` on the stored one
updateFIRDisposalWrite(r) ==
    /\ calls[r].pc = "found"
    /\ UNCHANGED <<nextId, now, probe, view, partOfDay, registry>>
    /\ LET c == calls[r]
           answer(code) ==
               /\ calls' = [calls EXCEPT ![r] = Done(c.user, c.id, c.body, code)]
               /\ res' = Resp("updateFIRDisposal", c.id, code)
       IN  IF c.fir = {}
           THEN answer(404) /\ UNCHANGED firs
           ELSE IF \E fir \in c.fir : ~InScope(c.user, fir.policeStation)
           THEN answer(403) /\ UNCHANGED firs
           ELSE IF \E fir \in c.fir : fir.disposalStatus # "Registered"
           THEN answer(400) /\ UNCHANGED firs
           ELSE /\ answer(200)
                /\ firs' = IF c.id \in DOMAIN firs
                           THEN [firs EXCEPT ![c.id] =
                                    SetDisposal(@, c.body.status, c.body.dateOfDisposal)]
                           ELSE firs

\* one pending case, of either station
InitRace ==
    /\ firs \in { [i \in 1 .. 1 |->
                      StoredCase(i, [station |-> st, active |-> TRUE, filed |-> ReadDay - 60,
                                     class |-> 90, status |-> "Registered",
                                     disposed |-> NoDate])] : st \in Stations }
    /\ nextId = 2
    /\ now = ReadDay
    /\ partOfDay = 0
    /\ res = NoRes
    /\ probe = NoProbe
    /\ view = NoView
    /\ registry = SeededStations
    /\ calls = [r \in 1 .. 2 |-> Idle]

DisposalFind ==
    \E r \in DOMAIN calls, u \in RaceUsers, id \in RaceIds, body \in RaceBodies :
        updateFIRDisposalFind(r, u, id, body)

DisposalWrite == \E r \in DOMAIN calls : updateFIRDisposalWrite(r)

NextRace ==
    \/ DisposalFind
    \/ DisposalWrite

SpecRace == InitRace /\ [][NextRace]_vars

----------------------------------------------------------------------------
(* A report in progress: the simple performance report awaits its four      *)
(* countDocuments queries one after the other, while cases are filed,       *)
(* disposed of and deleted.                                                 *)

\* the filters of the four counts, in the order the handler awaits them
CountFilters == <<DisposalStatuses, {"Registered"}, {"Chargesheeted"}, {"Finalized"}>>

\* FIR.countDocuments({ disposalStatus, isActive: true }) on the store as it is
countDocuments(statuses) ==
    Cardinality({ i \in DOMAIN firs :
                    firs[i].isActive /\ firs[i].disposalStatus \in statuses })

\* canGenerateReports, then the handler up to its first await
getPerformanceReportStart(r, u) ==
    /\ calls[r].pc = "idle"
    /\ UNCHANGED <<firs, nextId, now, probe, partOfDay, registry>>
    /\ IF ~canGenerateReports(u)
       THEN /\ calls' = [calls EXCEPT ![r] = Done(u, 0, "", 403)]
            /\ res' = Resp("getPerformanceReportSimple", 0, 403)
            /\ view' = NoView
       ELSE /\ calls' = [calls EXCEPT ![r] = [pc |-> "counting", user |-> u, counts |-> <<>>]]
            /\ UNCHANGED <<res, view>>

\* one awaited count; after the fourth the report is built and sent
getPerformanceReportCount(r) ==
    /\ calls[r].pc = "counting"
    /\ UNCHANGED <<firs, nextId, now, probe, partOfDay, registry>>
    /\ LET c == calls[r]
           counts == Append(c.counts, countDocuments(CountFilters[Len(c.counts) + 1]))
       IN  IF Len(counts) < Len(CountFilters)
           THEN /\ calls' = [calls EXCEPT ![r].counts = counts]
                /\ UNCHANGED <<res, view>>
           ELSE /\ calls' = [calls EXCEPT ![r] = Done(c.user, 0, "", 200)]
                /\ res' = Resp("getPerformanceReportSimple", 0, 200)
                /\ view' = Payload("getPerformanceReportSimple", c.user, "",
                       [totalFIRs |-> counts[1],
                        registeredFIRs |-> counts[2],
                        chargesheetedFIRs |-> counts[3],
                        finalizedFIRs |-> counts[4],
                        completionRate |->
                            IF counts[1] > 0
                            THEN Round((counts[3] + counts[4]) * 100, counts[1])
                            ELSE 0])

InitSnapshot ==
    /\ firs = <<>>
    /\ nextId = 1
    /\ now = Day0
    /\ partOfDay = 0
    /\ res = NoRes
    /\ probe = NoProbe
    /\ view = NoView
    /\ registry = SeededStations
    /\ calls = [r \in 1 .. 1 |-> Idle]

ReportStart == \E r \in DOMAIN calls, u \in RaceUsers : getPerformanceReportStart(r, u)

ReportCount == \E r \in DOMAIN calls : getPerformanceReportCount(r)

NextSnapshot ==
    \/ ReportStart
    \/ ReportCount
    \/ CreateFIR
    \/ UpdateFIRDisposal
    \/ DeleteFIR

SpecSnapshot == InitSnapshot /\ [][NextSnapshot]_vars

----------------------------------------------------------------------------
(* Properties *)

Created == res.op = "createFIR" /\ res.code = 201

\* a date a client can actually send: present and parseable
RealDate(d) == d # NoDate /\ d # BadDate

\* u sends body to one of the two disposal handlers and passes its access check
DisposalBy(u, id, body) ==
    \/ updateFIRDisposal(u, id, body) /\ InScope(u, firs[id].policeStation)
    \/ updateFIRDisposalAny(u, id, body) /\ canUpdateDisposal(u)

\* any disposal request, authorised or not
DisposalRequest(u, id, body) ==
    updateFIRDisposal(u, id, body) \/ updateFIRDisposalAny(u, id, body)

\* C1: a present disposalDate is never earlier than the case's filingDate
C1_DisposalNotBeforeFiling ==
    \A i \in DOMAIN firs :
        firs[i].disposalDate # NoDate => firs[i].disposalDate >= firs[i].filingDate

\* C2: a disposal update that would move a Finalized case to another status
\* fails, and the case stays Finalized
C2_FinalizedIsFinal ==
    [][\A u \in Users, id \in FirIds, body \in DisposalBodies :
          (/\ id \in DOMAIN firs
           /\ firs[id].disposalStatus = "Finalized"
           /\ body.status # "Finalized"
           /\ DisposalRequest(u, id, body))
          => (res'.code # 200 /\ firs'[id].disposalStatus = "Finalized")]_vars

\* C3 as stated: a disposal update of a Registered case to Finalized is rejected
C3_RegisteredToFinalizedRejected ==
    [][\A u \in Users, id \in FirIds, body \in DisposalBodies :
          (/\ id \in DOMAIN firs
           /\ firs[id].disposalStatus = "Registered"
           /\ body.status = "Finalized"
           /\ DisposalRequest(u, id, body))
          => (res'.code # 200 /\ firs'[id].disposalStatus # "Finalized")]_vars

\* C3 amended: a disposal update of an active Registered case to Finalized, by an
\* actor the handler admits and with a date not before the filing date, is
\* accepted and stores Finalized with that date: Finalized is reached directly
C3_RegisteredToFinalizedAccepted ==
    [][\A u \in Users, id \in FirIds, body \in DisposalBodies :
          (/\ id \in DOMAIN firs
           /\ firs[id].disposalStatus = "Registered"
           /\ firs[id].isActive
           /\ body.status = "Finalized"
           /\ RealDate(body.dateOfDisposal)
           /\ body.dateOfDisposal >= firs[id].filingDate
           /\ DisposalBy(u, id, body))
          => (/\ res'.code = 200
              /\ firs'[id].disposalStatus = "Finalized"
              /\ firs'[id].disposalDate = body.dateOfDisposal)]_vars

\* C3 witness: the Registered-only handler has just stored Finalized
C3_Witness ==
    /\ res.op = "updateFIRDisposal" /\ res.code = 200
    /\ res.id \in DOMAIN firs
    /\ firs[res.id].disposalStatus = "Finalized"

\* C4: an authorised disposal update of a Chargesheeted case to Finalized with a
\* date not before the filing date succeeds and leaves the case Finalized
C4_ChargesheetedToFinalized ==
    [][\A u \in Users, id \in FirIds, body \in DisposalBodies :
          (/\ id \in DOMAIN firs
           /\ firs[id].disposalStatus = "Chargesheeted"
           /\ firs[id].isActive
           /\ body.status = "Finalized"
           /\ RealDate(body.dateOfDisposal)
           /\ body.dateOfDisposal >= firs[id].filingDate
           /\ DisposalBy(u, id, body))
          => (res'.code = 200 /\ firs'[id].disposalStatus = "Finalized")]_vars

\* C5: a disposal update whose date is earlier than the filing date fails and
\* leaves disposalStatus and disposalDate as they were
C5_EarlyDisposalDateRejected ==
    [][\A u \in Users, id \in FirIds, body \in DisposalBodies :
          (/\ id \in DOMAIN firs
           /\ RealDate(body.dateOfDisposal)
           /\ body.dateOfDisposal < firs[id].filingDate
           /\ DisposalRequest(u, id, body))
          => (/\ res'.code # 200
              /\ firs'[id].disposalStatus = firs[id].disposalStatus
              /\ firs'[id].disposalDate = firs[id].disposalDate)]_vars

\* C6: every case in status Registered has no disposalDate
C6_RegisteredHasNoDisposalDate ==
    \A i \in DOMAIN firs :
        firs[i].disposalStatus = "Registered" => firs[i].disposalDate = NoDate

\* C7: every Chargesheeted or Finalized case has a disposalDate
C7_DisposedHasDisposalDate ==
    \A i \in DOMAIN firs :
        firs[i].disposalStatus \in {"Chargesheeted", "Finalized"}
            => firs[i].disposalDate # NoDate

\* C8 as stated: right after a successful createFIR the new case is Registered
C8_CreatedIsRegistered ==
    Created => firs[res.id].disposalStatus = "Registered"

\* C8 amended: right after a successful createFIR the new case is Registered when
\* the request carried no status, and has the requested status otherwise
C8_CreatedStatusFromRequest ==
    [][(nextId' # nextId /\ res'.op = "createFIR" /\ res'.code = 201)
       => \A u \in Users, body \in CreateBodies :
              (/\ body.filingDate = firs'[res'.id].filingDate
               /\ body.seriousnessDays = firs'[res'.id].seriousnessDays
               /\ body.disposalDate = firs'[res'.id].disposalDate
               /\ createFIR(u, body))
              => firs'[res'.id].disposalStatus =
                     (IF body.status = "" THEN "Registered" ELSE body.status)]_vars

\* C8 witness: a case has just been created from a request without a status
C8_Witness ==
    /\ Created
    /\ firs[res.id].disposalStatus = "Registered"
    /\ firs[res.id].disposalDate = NoDate

\* C9: right after creation the stored disposalDueDate is the filing date plus
\* exactly seriousnessDays days; 2025-01-01 with class 90 gives 2025-04-01
C9_DueDateIsFilingPlusClass ==
    Created =>
        LET f == firs[res.id]
        IN  /\ f.seriousnessDays \in SeriousnessClasses
            /\ f.disposalDueDate = f.filingDate + f.seriousnessDays
            /\ (f.filingDate = MakeDay(2025, 0, 1) /\ f.seriousnessDays = 90)
                 => /\ YearFromTime(f.disposalDueDate) = 2025
                    /\ MonthFromTime(f.disposalDueDate) = 3
                    /\ getDate(f.disposalDueDate) = 1

\* C9 witness: the case filed on 2025-01-01 with class 90 has been created
C9_Witness ==
    /\ Created
    /\ firs[res.id].filingDate = MakeDay(2025, 0, 1)
    /\ firs[res.id].seriousnessDays = 90
    /\ firs[res.id].disposalDueDate = MakeDay(2025, 3, 1)

\* C10: no step that changes a case's seriousnessDays changes its disposalDueDate
C10_DueDateSurvivesReclassification ==
    [][\A i \in DOMAIN firs \cap DOMAIN firs' :
          firs'[i].seriousnessDays # firs[i].seriousnessDays
          => firs'[i].disposalDueDate = firs[i].disposalDueDate]_vars

\* C10 witness: updateFIR has just reclassified a 90-day case as a 60-day case
C10_Witness ==
    /\ res.op = "updateFIR" /\ res.code = 200
    /\ res.id \in DOMAIN firs
    /\ firs[res.id].seriousnessDays = 60
    /\ firs[res.id].disposalDueDate = firs[res.id].filingDate + 90

\* C11: the sections list of every existing case has at least one entry, after
\* createFIR and after every later updateFIR
C11_SectionsNeverEmpty ==
    \A i \in DOMAIN firs : Len(firs[i].sections) >= 1

\* C12: a disposal update by a ps or sdpo actor on a case whose station is
\* outside the actor's scope is not accepted and leaves the case as it was
C12_OutOfScopeDisposalDenied ==
    [][\A u \in Users, id \in FirIds, body \in DisposalBodies :
          (/\ id \in DOMAIN firs
           /\ u.role \in {"ps", "sdpo"}
           /\ ~InScope(u, firs[id].policeStation)
           /\ DisposalRequest(u, id, body))
          => (res'.code # 200 /\ firs'[id] = firs[id])]_vars

\* every stored case is an active one
AllActive == \A i \in DOMAIN firs : firs[i].isActive

\* C13: among active cases, every case a listing returns to a station officer, whatever filter the
\* request names, is a case of the officer's own station
C13_StationOfficerListsOwnStation ==
    (view.op = "getAllFIRs" /\ view.user.role = "ps" /\ AllActive)
        => \A k \in DOMAIN view.data :
               view.data[k].doc.policeStation = view.user.police_station

\* C14: among active cases, every case a listing returns to a subdivision officer, and every case a
\* performance report made for one counts, is a case of a station in the
\* officer's station list
C14_SubdivisionOfficerSeesOwnStations ==
    /\ (view.op = "getAllFIRs" /\ view.user.role = "sdpo" /\ AllActive)
           => \A k \in DOMAIN view.data :
                  view.data[k].doc.policeStation \in view.user.subdivision_stations
    /\ (view.op = "getPerformanceReport" /\ view.user.role = "sdpo" /\ AllActive)
           => \A i \in view.counted :
                  firs[i].policeStation \in view.user.subdivision_stations

ReportNameOf(t) ==
    CASE t = "Safe" -> "Green"
      [] t = "Exceeded" -> "Red+ (Overdue)"
      [] OTHER -> t

\* C16: one urgency rule everywhere, for active cases: the tier the dashboard shows, the
\* histogram of getPerformanceReport, the urgency counts of the report-data
\* pipeline and the single-tier urgency filters of the listing all give a
\* pending case the tier of the virtual disposalUrgencyStatus
C16_OneUrgencyRule ==
    AllActive =>
        /\ view.op = "getFIR"
             => getStatus(view.data[1].doc) =
                  (CASE view.data[1].disposalUrgencyStatus = "Safe" -> "safe"
                     [] view.data[1].disposalUrgencyStatus = "Yellow" -> "warning"
                     [] view.data[1].disposalUrgencyStatus = "Orange" -> "critical"
                     [] view.data[1].disposalUrgencyStatus = "Red" -> "urgent"
                     [] OTHER -> "overdue")
        /\ view.op = "getPerformanceReport"
             => \A c \in UrgencyCategoryNames :
                    view.urgencyCategories[c] =
                        Cardinality({ i \in DOMAIN firs :
                            /\ firs[i].disposalStatus = "Registered"
                            /\ ReportNameOf(disposalUrgencyStatus(firs[i])) = c })
        /\ view.op = "GET"
             => \A k \in DOMAIN view.policeStations :
                    view.policeStations[k].urgencyCounts.red =
                        Cardinality({ i \in view.counted :
                            /\ firs[i].policeStation = view.policeStations[k].policeStationName
                            /\ firs[i].disposalStatus = "Registered"
                            /\ disposalUrgencyStatus(firs[i]) = "Red" })
        /\ (view.op = "getAllFIRs"
              /\ view.query.urgency \in {"safe", "yellow", "orange", "red", "exceeded"})
             => \A k \in DOMAIN view.data :
                    disposalUrgencyStatus(view.data[k].doc) =
                        (CASE view.query.urgency = "safe" -> "Safe"
                           [] view.query.urgency = "yellow" -> "Yellow"
                           [] view.query.urgency = "orange" -> "Orange"
                           [] view.query.urgency = "red" -> "Red"
                           [] OTHER -> "Exceeded")

\* C17: an active Chargesheeted or Finalized case is never served with an
\* urgency tier, never returned by an urgency filter of the listing and never
\* counted in an urgency histogram of a report
C17_DisposedOutsideUrgency ==
    AllActive =>
        /\ view.op \in {"getFIR", "getAllFIRs"}
             => \A k \in DOMAIN view.data :
                    view.data[k].doc.disposalStatus \in {"Chargesheeted", "Finalized"}
                        => /\ view.data[k].disposalUrgencyStatus = ""
                           /\ view.op = "getAllFIRs" => view.query.urgency \notin UrgencyNames
        /\ view.op = "getPerformanceReport"
             => Sum(view.urgencyCategories, UrgencyCategoryNames)
                    <= Cardinality({ i \in DOMAIN firs : firs[i].disposalStatus = "Registered" })
        /\ view.op = "GET"
             => \A k \in DOMAIN view.policeStations :
                    LET uc == view.policeStations[k].urgencyCounts
                    IN  uc.yellow + uc.orange + uc.red + uc.redPlus + uc.green
                            <= view.policeStations[k].totalRegistered

CasesOf(station) == { i \in DOMAIN firs : firs[i].policeStation = station }

OnTimeOf(station) ==
    { i \in CasesOf(station) :
        /\ firs[i].disposalStatus = "Chargesheeted"
        /\ firs[i].disposalDate # NoDate
        /\ firs[i].disposalDueDate # NoDate
        /\ firs[i].disposalDate <= firs[i].disposalDueDate }

\* C19: in a performance report over active cases, the performancePercentage of
\* every station is round(on-time chargesheeted / all cases of the station x 100)
\* and 0 for a station without cases; 4 on time out of 10 gives 40
C19_PerformancePercentage ==
    (view.op = "getPerformanceReport" /\ AllActive)
        => \A k \in DOMAIN view.stationPerformance :
               LET row == view.stationPerformance[k]
                   total == Cardinality(CasesOf(row.stationName))
                   onTime == Cardinality(OnTimeOf(row.stationName))
               IN  /\ row.performancePercentage =
                          (IF total = 0 THEN 0 ELSE Round(onTime * 100, total))
                   /\ (total = 10 /\ onTime = 4) => row.performancePercentage = 40

\* C20: in a performance report over active cases, the chargesheeted count of
\* every station is the number of its Chargesheeted cases whose disposalDate is
\* not after their disposalDueDate
C20_OnTimeChargesheetedCount ==
    (view.op = "getPerformanceReport" /\ AllActive)
        => \A k \in DOMAIN view.stationPerformance :
               view.stationPerformance[k].totalChargesheetedFIRs =
                   Cardinality(OnTimeOf(view.stationPerformance[k].stationName))

\* C21: in every per-station result computed over active cases, each station of
\* the active registry has an entry, also a station without a matching case
C21_EveryStationReported ==
    AllActive =>
        \A k \in DOMAIN policeStations :
            /\ view.op = "getPerformanceReport"
                 => \E j \in DOMAIN view.stationPerformance :
                        view.stationPerformance[j].stationName = policeStations[k]
            /\ view.op = "generatePerformanceReport"
                 => \E j \in DOMAIN view.policeStationPerformance :
                        view.policeStationPerformance[j].name = policeStations[k]
            /\ view.op = "GET"
                 => \E j \in DOMAIN view.policeStations :
                        view.policeStations[j].policeStationName = policeStations[k]

\* C22: a report over no cases, or the entry of a station without cases, is
\* answered and holds zeros: no case counted, performancePercentage 0,
\* completionRate 0, and an average of 0 over an empty list of stations
C22_EmptyAggregationIsZero ==
    /\ (res.op \in {"getPerformanceReport", "generatePerformanceReport", "GET"}
          /\ firs = <<>>) => res.code \in {200, 403}
    /\ view.op = "getPerformanceReport"
         => /\ \A k \in DOMAIN view.stationPerformance :
                  LET row == view.stationPerformance[k]
                  IN  CasesOf(row.stationName) = {}
                        => /\ row.totalUndisposedFIRs = 0
                           /\ row.totalChargesheetedFIRs = 0
                           /\ row.performancePercentage = 0
            /\ firs = <<>> => view.summary.totalUndisposedFIRs = 0
            /\ (firs = <<>> \/ view.stationPerformance = <<>>)
                  => view.summary.averagePerformance = 0
    /\ view.op = "generatePerformanceReport"
         => /\ view.counted = {}
                  => /\ view.overview.totalFIRs = 0
                     /\ view.overview.completionRate = 0
                     /\ view.overview.overdueRate = 0
            /\ \A k \in DOMAIN view.policeStationPerformance :
                  LET row == view.policeStationPerformance[k]
                  IN  (\A i \in view.counted : firs[i].policeStation # row.name)
                        => row.totalFIRs = 0 /\ row.completionRate = 0
    /\ (view.op = "GET" /\ view.counted = {})
         => /\ view.policeStations = <<>>
            /\ view.summary.totalRegisteredCases = 0
            /\ view.summary.averagePerformancePercentage.num = 0

\* C22 witness: the performance report of a seeded database without cases lists
\* both stations with 0 cases and 0 percent
C22_Witness ==
    /\ view.op = "getPerformanceReport"
    /\ firs = <<>>
    /\ Len(view.stationPerformance) = 2
    /\ \A k \in DOMAIN view.stationPerformance :
           /\ view.stationPerformance[k].totalUndisposedFIRs = 0
           /\ view.stationPerformance[k].performancePercentage = 0
    /\ view.summary.averagePerformance = 0

\* round((Chargesheeted + Finalized) / all x 100) over a set of cases, halves
\* upwards, 0 for no case
CompletionOf(S) ==
    IF S = {} THEN 0
    ELSE Round(Cardinality({ i \in S : firs[i].disposalStatus \in {"Chargesheeted", "Finalized"} })
                   * 100, Cardinality(S))

\* C23: the completionRate of a report is round((chargesheeted + finalized) /
\* total x 100) over the active cases matching the request, 0 without cases,
\* for the whole report and for the entry of every station
C23_CompletionRate ==
    /\ view.op = "getPerformanceReportSimple"
         => view.completionRate = CompletionOf({ i \in DOMAIN firs : firs[i].isActive })
    /\ view.op = "generatePerformanceReport"
         => /\ view.overview.completionRate = CompletionOf(baseFilter(view.query))
            /\ \A k \in DOMAIN view.policeStationPerformance :
                  LET row == view.policeStationPerformance[k]
                  IN  row.completionRate =
                          CompletionOf({ i \in baseFilter(view.query) :
                                           firs[i].policeStation = row.name })

\* the sum of the performancePercentage of the entries of a per-station result
SumOfPercentages(rows) ==
    Sum([k \in DOMAIN rows |-> rows[k].performancePercentage], DOMAIN rows)

\* C24: the average performance of a summary is the mean of the
\* performancePercentage of the stations in the result, every station weighing
\* the same: average x number of stations = sum of the percentages
C24_AverageIsMean ==
    /\ (view.op = "getPerformanceReport" /\ view.stationPerformance # <<>>)
         => view.summary.averagePerformance * Len(view.stationPerformance)
                = SumOfPercentages(view.stationPerformance)
    /\ (view.op = "GET" /\ view.policeStations # <<>>)
         => /\ view.summary.averagePerformancePercentage.num
                   = SumOfPercentages(view.policeStations)
            /\ view.summary.averagePerformancePercentage.den = Len(view.policeStations)

\* C24, as the code has it: the average of getPerformanceReport is the
\* unweighted mean rounded to the nearest whole percent, the average of the
\* report-data pipeline is the unweighted mean itself
C24_AverageIsRoundedMean ==
    /\ (view.op = "getPerformanceReport" /\ view.stationPerformance # <<>>)
         => LET n == Len(view.stationPerformance)
                total == SumOfPercentages(view.stationPerformance)
                a == view.summary.averagePerformance
            IN  2 * n * a - n <= 2 * total /\ 2 * total < 2 * n * a + n
    /\ (view.op = "GET" /\ view.policeStations # <<>>)
         => /\ view.summary.averagePerformancePercentage.num
                   = SumOfPercentages(view.policeStations)
            /\ view.summary.averagePerformancePercentage.den = Len(view.policeStations)

\* C24 witness: a station with six pending cases at 67 percent and a station
\* without cases at 0 percent average to 34
C24_Witness ==
    /\ view.op = "getPerformanceReport"
    /\ Len(view.stationPerformance) = 2
    /\ view.stationPerformance[1].performancePercentage = 0
    /\ view.stationPerformance[1].totalUndisposedFIRs = 0
    /\ view.stationPerformance[2].performancePercentage = 67
    /\ view.stationPerformance[2].totalUndisposedFIRs = 6
    /\ view.summary.averagePerformance = 34

\* C25: the firNumber of a case never changes once the case exists, whatever
\* operation runs on it
C25_FirNumberImmutable ==
    [][\A i \in DOMAIN firs \cap DOMAIN firs' : firs'[i].firNumber = firs[i].firNumber]_vars

\* C25, as the code has it: the firNumber of a case changes only through an
\* accepted updateFIR on that case, which stores the number the request names;
\* no other operation changes it
C25_FirNumberChangedByUpdateOnly ==
    [][(\A i \in DOMAIN firs \cap DOMAIN firs' :
            firs'[i].firNumber # firs[i].firNumber
                => res' = Resp("updateFIR", i, 200))
       /\ (\A u \in Users, id \in FirIds, body \in RecordUpdateBodies :
              (/\ res' = Resp("updateFIR", id, 200)
               /\ body.firNumber # ""
               /\ updateFIR(u, id, body))
                  => firs'[id].firNumber = body.firNumber)]_vars

\* C25 witness: a case filed as F1 carries the number F2 after an accepted
\* updateFIR
C25_Witness ==
    /\ res = Resp("updateFIR", 1, 200)
    /\ 1 \in DOMAIN firs
    /\ firs[1].firNumber = "F2"

\* one sequence is an initial part of the other
IsPrefix(a, b) == Len(a) <= Len(b) /\ SubSeq(b, 1, Len(a)) = a

\* C26: for every case that exists before and after an operation, the remarks
\* before are an initial part of the remarks after: nothing is removed,
\* rewritten or moved
C26_RemarksAppendOnly ==
    [][\A i \in DOMAIN firs \cap DOMAIN firs' :
          IsPrefix(firs[i].remarks, firs'[i].remarks)]_vars

\* C26 witness: a second remark has been added to a log that held one
C26_Witness ==
    /\ res = Resp("addRemark", 1, 200)
    /\ 1 \in DOMAIN firs
    /\ Len(firs[1].remarks) = 2
    /\ firs[1].remarks[1].addedBy # firs[1].remarks[2].addedBy

\* C27: of two disposal requests in flight for the same pending case, at most
\* one is answered with success
C27_AtMostOneDisposalSucceeds ==
    \A r1, r2 \in DOMAIN calls :
        (/\ r1 # r2
         /\ calls[r1].pc = "done" /\ calls[r2].pc = "done"
         /\ calls[r1].id = calls[r2].id)
            => ~(calls[r1].code = 200 /\ calls[r2].code = 200)

\* C28: in every simple performance report sent, the total is the sum of the
\* three status counts, also when cases are filed, disposed of or deleted
\* while the report is being computed
C28_ReportCountsAddUp ==
    view.op = "getPerformanceReportSimple"
        => view.totalFIRs
             = view.registeredFIRs + view.chargesheetedFIRs + view.finalizedFIRs

\* C29: the performancePercentage of every station in a performance report
\* over active cases is at least 0 and at most 100
C29_PercentageWithinRange ==
    (view.op = "getPerformanceReport" /\ AllActive)
        => \A k \in DOMAIN view.stationPerformance :
               /\ 0 <= view.stationPerformance[k].performancePercentage
               /\ view.stationPerformance[k].performancePercentage <= 100

\* the tier of the virtual under the names getByUrgency uses
UrgencyNameOf(t) ==
    CASE t = "Safe" -> "Green"
      [] t = "Exceeded" -> "Red+"
      [] OTHER -> t

\* C30: at one moment, every active pending case with a due date is returned
\* by exactly one of the five getByUrgency queries, and a query returns exactly
\* the active pending cases whose disposalUrgencyStatus is its tier
C30_GetByUrgencyPartition ==
    (view.op = "getByUrgency" /\ AllActive) =>
        LET pending == { i \in DOMAIN firs : /\ firs[i].disposalStatus = "Registered"
                                              /\ firs[i].disposalDueDate # NoDate }
        IN  /\ \A i \in pending :
                   Cardinality({ g \in GetByUrgencyNames : i \in getByUrgency(g) }) = 1
            /\ view.query \in GetByUrgencyNames
                  => view.ids = { i \in pending :
                                    UrgencyNameOf(disposalUrgencyStatus(firs[i])) = view.query }

====
